---------------------------- MODULE Spec2Model ----------------------------
(***************************************************************************)
(* Rule 116 -- SPLIT requires MODE (src/app/app.py).                       *)
(*                                                                         *)
(* A source text is a sequence of one-character strings.  Offsets are      *)
(* 0-based as in Python: the character at offset k of text is text[k+1],   *)
(* and the slice text[s:e] is SubSeq(text, s+1, e).                        *)
(*                                                                         *)
(* The two compiled patterns are modelled by what the regex engine does    *)
(* on them: word boundaries, case folding, the greedy negated class and    *)
(* the leftmost non-overlapping iteration of finditer.  scan_unit and      *)
(* scan_rule are modelled step by step, one action per loop iteration.     *)
(***************************************************************************)
EXTENDS Integers, Sequences, FiniteSets, TLC

VARIABLES
    units,      \* scan_rule: the request body, a sequence of Unit
    pc,         \* "rule": in scan_rule's loop; "unit": inside scan_unit; "done": returned
    i,          \* scan_rule: number of units already taken by `for u in units`
    src,        \* scan_unit: src
    pos,        \* scan_unit: offset at which finditer resumes
    matches,    \* scan_unit: (start, end, stmt, has_mode) of every iteration so far
    findings,   \* scan_unit: findings
    returned,   \* every value scan_unit has returned in this request, in call order
    results     \* scan_rule: results

vars == <<units, pc, i, src, pos, matches, findings, returned, results>>

-----------------------------------------------------------------------------
(* Bounds of the model *)

\* longest token sequence a generated source text is made of
MaxToks == 4

\* longest batch of units in one request
MaxUnits == 3

-----------------------------------------------------------------------------
(* Characters *)

NL == "\n"
BS == "\\"

ToUpper ==
    ("a" :> "A") @@ ("b" :> "B") @@ ("c" :> "C") @@ ("d" :> "D") @@ ("e" :> "E") @@ ("f" :> "F") @@
    ("g" :> "G") @@ ("h" :> "H") @@ ("i" :> "I") @@ ("j" :> "J") @@ ("k" :> "K") @@ ("l" :> "L") @@
    ("m" :> "M") @@ ("n" :> "N") @@ ("o" :> "O") @@ ("p" :> "P") @@ ("q" :> "Q") @@ ("r" :> "R") @@
    ("s" :> "S") @@ ("t" :> "T") @@ ("u" :> "U") @@ ("v" :> "V") @@ ("w" :> "W") @@ ("x" :> "X") @@
    ("y" :> "Y") @@ ("z" :> "Z")

\* (?i): two characters match when they agree after case folding
Fold(c) == IF c \in DOMAIN ToUpper THEN ToUpper[c] ELSE c

\* \w of a str pattern: letters, digits and the underscore (ASCII texts)
WordChars ==
    {"A", "B", "C", "D", "E", "F", "G", "H", "I", "J", "K", "L", "M",
     "N", "O", "P", "Q", "R", "S", "T", "U", "V", "W", "X", "Y", "Z",
     "a", "b", "c", "d", "e", "f", "g", "h", "i", "j", "k", "l", "m",
     "n", "o", "p", "q", "r", "s", "t", "u", "v", "w", "x", "y", "z",
     "0", "1", "2", "3", "4", "5", "6", "7", "8", "9", "_"}

IsWord(c) == c \in WordChars

\* \s of a str pattern, over the characters the texts below are made of
IsSpace(c) == c \in {" ", "\t", "\n", "\r", "\f"}

Ch(text, off) == text[off + 1]

Slice(text, s, e) == SubSeq(text, s + 1, e)

Max(a, b) == IF a >= b THEN a ELSE b

Min(a, b) == IF a <= b THEN a ELSE b

-----------------------------------------------------------------------------
(* Helpers: line_of_offset, snippet_at *)

\* the width of the context kept on either side of a statement
Context == 60

\* text.count("\n", 0, off) + 1
line_of_offset(text, off) ==
    Cardinality({k \in 0 .. (Min(off, Len(text)) - 1) : Ch(text, k) = NL}) + 1

\* str.replace("\n", "\\n"): every newline becomes backslash, n; the other characters
\* stay.  (Computed by halves to keep the evaluation shallow.)
RECURSIVE EscapeNewlines(_)
EscapeNewlines(s) ==
    IF s = <<>> THEN <<>>
    ELSE IF Len(s) = 1 THEN (IF s[1] = NL THEN <<BS, "n">> ELSE s)
    ELSE LET h == Len(s) \div 2
         IN  EscapeNewlines(SubSeq(s, 1, h)) \o EscapeNewlines(SubSeq(s, h + 1, Len(s)))

\* snippet_at without the replace: the excerpt as it stands
snippet_at_Raw(text, start, end) ==
    Slice(text, Max(0, start - Context), Min(Len(text), end + Context))

snippet_at(text, start, end) ==
    LET s == Max(0, start - Context)
        e == Min(Len(text), end + Context)
    IN  EscapeNewlines(Slice(text, s, e))

-----------------------------------------------------------------------------
(* The patterns *)

KwSplit == <<"S", "P", "L", "I", "T">>
KwIn == <<"I", "N">>
KwCharacter == <<"C", "H", "A", "R", "A", "C", "T", "E", "R">>
KwByte == <<"B", "Y", "T", "E">>
KwMode == <<"M", "O", "D", "E">>

\* \b at offset p: exactly one of the characters before and after p is a word character
WordBoundary(text, p) ==
    (p > 0 /\ IsWord(Ch(text, p - 1))) # (p < Len(text) /\ IsWord(Ch(text, p)))

\* a literal of the pattern matched at offset p under (?i)
LitAt(text, p, lit) ==
    /\ p + Len(lit) <= Len(text)
    /\ \A k \in 0 .. (Len(lit) - 1) : Fold(Ch(text, p + k)) = lit[k + 1]

\* .* in place of [^.]*: the run goes on to the last period of the text
SkipToLastPeriod(text, q) ==
    LET stops == {r \in q .. (Len(text) - 1) : Ch(text, r) = "."}
    IN  IF stops = {} THEN Len(text) ELSE CHOOSE r \in stops : \A x \in stops : r >= x

\* [^.]* from offset q: the offset just after the longest run of non-period characters
SkipNonPeriod(text, q) ==
    LET stops == {r \in q .. (Len(text) - 1) : Ch(text, r) = "."}
    IN  IF stops = {} THEN Len(text) ELSE CHOOSE r \in stops : \A x \in stops : r <= x

NoMatch == [start |-> -1, end |-> -1]

\* STMT_RE with an optional period: an unterminated keyword matches up to the end of text
STMT_RE_at_OptionalPeriod(text, p) ==
    IF /\ WordBoundary(text, p)
       /\ LitAt(text, p, KwSplit)
       /\ WordBoundary(text, p + Len(KwSplit))
    THEN LET q == SkipNonPeriod(text, p + Len(KwSplit))
         IN  [start |-> p, end |-> Min(q + 1, Len(text))]
    ELSE NoMatch

\* STMT_RE anchored at offset p: \bSPLIT\b [^.]* \.  The negated class takes every
\* character up to the first period (newlines too); giving characters back never
\* uncovers a period, so the match ends right after that period or fails.
STMT_RE_at(text, p) ==
    IF /\ WordBoundary(text, p)
       /\ LitAt(text, p, KwSplit)
       /\ WordBoundary(text, p + Len(KwSplit))
    THEN LET q == SkipNonPeriod(text, p + Len(KwSplit))
         IN  IF q < Len(text) THEN [start |-> p, end |-> q + 1] ELSE NoMatch
    ELSE NoMatch

\* one step of STMT_RE.finditer(text): the leftmost match starting at or after from
STMT_RE_search(text, from) ==
    LET starts == {p \in from .. Len(text) : STMT_RE_at(text, p) # NoMatch}
    IN  IF starts = {} THEN NoMatch
        ELSE STMT_RE_at(text, CHOOSE p \in starts : \A x \in starts : p <= x)

\* \s+ from offset p: the offsets at which the run of whitespace may stop
SpaceRunEnds(text, p) ==
    {q \in (p + 1) .. Len(text) : \A k \in p .. (q - 1) : IsSpace(Ch(text, k))}

\* MODE_RE without the BYTE alternative
MODE_RE_at_CharacterOnly(text, p) ==
    /\ WordBoundary(text, p)
    /\ LitAt(text, p, KwIn)
    /\ \E q \in SpaceRunEnds(text, p + Len(KwIn)) :
          /\ LitAt(text, q, KwCharacter)
          /\ \E r \in SpaceRunEnds(text, q + Len(KwCharacter)) :
                /\ LitAt(text, r, KwMode)
                /\ WordBoundary(text, r + Len(KwMode))

\* MODE_RE without its two \b
MODE_RE_at_NoBoundary(text, p) ==
    /\ LitAt(text, p, KwIn)
    /\ \E q \in SpaceRunEnds(text, p + Len(KwIn)) :
         \E alt \in {KwCharacter, KwByte} :
            /\ LitAt(text, q, alt)
            /\ \E r \in SpaceRunEnds(text, q + Len(alt)) : LitAt(text, r, KwMode)

\* MODE_RE anchored at offset p: \bIN \s+ (CHARACTER|BYTE) \s+ MODE\b
MODE_RE_at(text, p) ==
    /\ WordBoundary(text, p)
    /\ LitAt(text, p, KwIn)
    /\ \E q \in SpaceRunEnds(text, p + Len(KwIn)) :
         \E alt \in {KwCharacter, KwByte} :
            /\ LitAt(text, q, alt)
            /\ \E r \in SpaceRunEnds(text, q + Len(alt)) :
                  /\ LitAt(text, r, KwMode)
                  /\ WordBoundary(text, r + Len(KwMode))

\* MODE_RE.search(text) is not None
MODE_RE_search(text) == \E p \in 0 .. Len(text) : MODE_RE_at(text, p)

-----------------------------------------------------------------------------
(* Units and findings *)

Message ==
    "SPLIT without MODE. Specify IN CHARACTER MODE (text) or IN BYTE MODE (binary)."

Suggestion ==
    "SPLIT <text> AT <sep> INTO <f1> <f2> ... IN CHARACTER MODE.\n* or *\nSPLIT <xbin> AT <xsep> INTO <x1> <x2> ... IN BYTE MODE. Specify IN CHARACTER MODE (text) or IN BYTE MODE (binary)."

IssueType == "SplitWithoutMode"

Severity == "warning"

\* Finding with the line made absolute by the unit's start_line
Finding_AbsoluteLine(unit, text, start, end) ==
    [ pgm_name   |-> unit.pgm_name,
      inc_name   |-> unit.inc_name,
      type       |-> unit.type,
      name       |-> unit.name,
      start_line |-> unit.start_line,
      end_line   |-> unit.end_line,
      issue_type |-> IssueType,
      severity   |-> Severity,
      line       |-> unit.start_line + line_of_offset(text, start) - 1,
      message    |-> Message,
      suggestion |-> Suggestion,
      snippet    |-> snippet_at(text, start, end) ]

\* Finding with start_line and end_line taken from the statement, not from the unit
Finding_StatementLines(unit, text, start, end) ==
    [ pgm_name   |-> unit.pgm_name,
      inc_name   |-> unit.inc_name,
      type       |-> unit.type,
      name       |-> unit.name,
      start_line |-> line_of_offset(text, start),
      end_line   |-> line_of_offset(text, end),
      issue_type |-> IssueType,
      severity   |-> Severity,
      line       |-> line_of_offset(text, start),
      message    |-> Message,
      suggestion |-> Suggestion,
      snippet    |-> snippet_at(text, start, end) ]

\* the dict appended to findings for the match [start, end) of text, unit being scanned
Finding(unit, text, start, end) ==
    [ pgm_name   |-> unit.pgm_name,
      inc_name   |-> unit.inc_name,
      type       |-> unit.type,
      name       |-> unit.name,
      start_line |-> unit.start_line,
      end_line   |-> unit.end_line,
      issue_type |-> IssueType,
      severity   |-> Severity,
      line       |-> line_of_offset(text, start),
      message    |-> Message,
      suggestion |-> Suggestion,
      snippet    |-> snippet_at(text, start, end) ]

\* obj = unit.model_dump(); obj["rule116_findings"] = findings
Result(unit, fs) ==
    [ pgm_name   |-> unit.pgm_name,
      inc_name   |-> unit.inc_name,
      type       |-> unit.type,
      name       |-> unit.name,
      start_line |-> unit.start_line,
      end_line   |-> unit.end_line,
      code       |-> unit.code,
      rule116_findings |-> fs ]

\* findings kept from the previous call (a list shared between calls)
KeptFindings == findings

\* findings = [] on entry to scan_unit
NewFindings == <<>>

\* findings.insert(0, ...) in place of findings.append(...)
PrependFinding(fs, f) == <<f>> \o fs

\* findings.append({...})
AddFinding(fs, f) == Append(fs, f)

\* scan_rule keeps every result
KeepAll(res) == TRUE

\* if res.get("rule116_findings"): a non-empty findings list
Keep(res) == res.rule116_findings # <<>>

\* unit.code or ""
SourceOf(unit) == IF unit.code = <<>> THEN <<>> ELSE unit.code

-----------------------------------------------------------------------------
(* Inputs *)

SP == <<" ">>
DOT == <<".">>

\* a comment line one character longer than the context window
Ruler == [k \in 1 .. (Context + 1) |-> IF k = 1 THEN "*" ELSE IF k = Context + 1 THEN NL ELSE "-"]

Tokens ==
    { KwSplit,
      <<"s", "p", "L", "i", "t">>,
      SP,
      <<NL>>,
      DOT,
      <<"X">>,
      KwIn \o SP \o KwCharacter \o SP \o KwMode,
      <<"i", "n", "\t">> \o <<"B", "y", "t", "e">> \o <<NL, " ">> \o <<"m", "o", "d", "e">> }

\* the concatenation of a sequence of sequences
RECURSIVE Cat(_)
Cat(ts) ==
    IF ts = <<>> THEN <<>>
    ELSE IF Len(ts) = 1 THEN ts[1]
    ELSE LET h == Len(ts) \div 2
         IN  Cat(SubSeq(ts, 1, h)) \o Cat(SubSeq(ts, h + 1, Len(ts)))

TokenTexts == {Cat(ts) : ts \in UNION {[1 .. n -> Tokens] : n \in 0 .. MaxToks}}

Stmt(body) == KwSplit \o SP \o <<"a">> \o body \o DOT

Samples ==
    { \* the first period lies inside a literal, after a second keyword; the qualifier follows
      KwSplit \o SP \o <<"a", " ">> \o KwSplit \o <<" ", "A", "T", " ", "'", ".", "'", " ">>
         \o <<"I", "N", "T", "O", " ", "b", " ">> \o KwIn \o SP \o KwByte \o SP \o KwMode \o DOT,
      \* near misses of the qualifier
      Stmt(SP \o KwIn \o SP \o KwCharacter \o SP \o KwMode \o <<"X">>),
      Stmt(SP \o <<"X">> \o KwIn \o SP \o KwCharacter \o SP \o KwMode),
      Stmt(SP \o KwIn \o SP \o KwCharacter),
      Stmt(SP \o KwIn \o KwCharacter \o SP \o KwMode),
      Stmt(<<"_">> \o KwIn \o SP \o KwByte \o SP \o KwMode),
      \* more than Context characters before, after, and on both sides of a statement
      Ruler \o Stmt(<<NL>>) \o <<NL>>,
      Stmt(<<>>) \o <<NL>> \o Ruler,
      Ruler \o Ruler \o Stmt(<<NL, NL>>) \o Ruler \o Stmt(SP \o KwIn \o SP \o KwByte \o SP \o KwMode) \o Ruler,
      \* keywords glued to a word, four statements on four lines, then an unterminated keyword
      <<"x">> \o KwSplit \o DOT \o <<NL>> \o KwSplit \o <<"_", "x">> \o DOT \o <<NL>>
         \o Stmt(<<>>) \o <<NL>> \o Stmt(<<" ", "i", "n", "\t", "b", "y", "t", "e", NL, " ", "m", "o", "d", "e">>)
         \o Stmt(<<NL>>) \o SP \o <<"s", "p", "L", "i", "t">> \o DOT \o <<NL>> \o KwSplit \o SP \o <<"b">> }

Header1 ==
    [pgm_name |-> "ZPGM", inc_name |-> "ZINC", type |-> "FORM", name |-> "SPLIT_IT",
     start_line |-> 10, end_line |-> 20]

\* name, start_line and end_line at their defaults
Header2 ==
    [pgm_name |-> "ZREP", inc_name |-> "", type |-> "PROGRAM", name |-> "",
     start_line |-> 0, end_line |-> 0]

Unit(h, text) ==
    [ pgm_name |-> h.pgm_name, inc_name |-> h.inc_name, type |-> h.type, name |-> h.name,
      start_line |-> h.start_line, end_line |-> h.end_line, code |-> text ]

SingleUnits ==
    {Unit(Header1, t) : t \in TokenTexts} \cup {Unit(h, t) : h \in {Header1, Header2}, t \in Samples}

BatchUnits ==
    { Unit(Header1, Stmt(<<>>)),
      Unit(Header2, Stmt(<<>>)),
      Unit(Header1, Stmt(SP \o KwIn \o SP \o KwCharacter \o SP \o KwMode)),
      Unit(Header2, Stmt(<<NL>>) \o <<NL>> \o Stmt(SP \o KwIn \o SP \o KwByte \o SP \o KwMode) \o KwSplit \o DOT),
      Unit(Header2, <<>>) }

Batches == UNION {[1 .. n -> BatchUnits] : n \in 0 .. MaxUnits}

Requests == {<<u>> : u \in SingleUnits} \cup Batches

-----------------------------------------------------------------------------
(* scan_rule and scan_unit *)

Init ==
    /\ units \in Requests
    /\ pc = "rule"
    /\ i = 0
    /\ src = <<>>
    /\ pos = 0
    /\ matches = <<>>
    /\ findings = <<>>
    /\ returned = <<>>
    /\ results = <<>>

\* `for u in units`: the next unit is passed to scan_unit, which sets src and findings
CallScanUnit ==
    /\ pc = "rule"
    /\ i < Len(units)
    /\ i' = i + 1
    /\ src' = SourceOf(units[i + 1])
    /\ findings' = NewFindings
    /\ pos' = 0
    /\ matches' = <<>>
    /\ pc' = "unit"
    /\ UNCHANGED <<units, returned, results>>

\* one iteration of `for m in STMT_RE.finditer(src)`
ForMatch ==
    /\ pc = "unit"
    /\ LET m == STMT_RE_search(src, pos)
       IN  /\ m # NoMatch
           /\ LET stmt == Slice(src, m.start, m.end)
                  has_mode == MODE_RE_search(stmt)
              IN  /\ matches' = Append(matches,
                        [start |-> m.start, end |-> m.end, stmt |-> stmt, has_mode |-> has_mode])
                  /\ findings' = IF ~has_mode
                                 THEN AddFinding(findings, Finding(units[i], src, m.start, m.end))
                                 ELSE findings
           /\ pos' = m.end
    /\ UNCHANGED <<units, pc, i, src, returned, results>>

\* finditer is exhausted: scan_unit returns obj, scan_rule keeps it if it has findings
ReturnScanUnit ==
    /\ pc = "unit"
    /\ STMT_RE_search(src, pos) = NoMatch
    /\ LET res == Result(units[i], findings)
       IN  /\ returned' = Append(returned, res)
           /\ results' = IF Keep(res) THEN Append(results, res) ELSE results
    /\ pc' = "rule"
    /\ UNCHANGED <<units, i, src, pos, matches, findings>>

\* return results
ReturnResults ==
    /\ pc = "rule"
    /\ i = Len(units)
    /\ pc' = "done"
    /\ UNCHANGED <<units, i, src, pos, matches, findings, returned, results>>

Next ==
    \/ CallScanUnit
    \/ ForMatch
    \/ ReturnScanUnit
    \/ ReturnResults

Spec == Init /\ [][Next]_vars

-----------------------------------------------------------------------------
(* What the rule is meant to find, stated on the text alone *)

\* the characters of text[s:e], case folded
Folded(text, s, e) == [k \in 1 .. (e - s) |-> Fold(text[s + k])]

\* text[s:e] is the word w (any case), not glued to a word character on either side
WholeWord(text, s, e, w) ==
    /\ 0 <= s /\ e <= Len(text)
    /\ Folded(text, s, e) = w
    /\ (s = 0 \/ text[s] \notin WordChars)
    /\ (e = Len(text) \/ text[e + 1] \notin WordChars)

\* text[s:e] is one or more whitespace characters
Blank(text, s, e) == s < e /\ \A k \in (s + 1) .. e : IsSpace(text[k])

\* offsets of the periods of text from offset p on
PeriodsFrom(text, p) == {q \in p .. (Len(text) - 1) : text[q + 1] = "."}

\* a whole-word SPLIT keyword starts at offset p
IsKeyword(text, p) == WholeWord(text, p, p + Len(KwSplit), KwSplit)

Least(S) == CHOOSE x \in S : \A y \in S : x <= y

\* offsets at which a statement starts: a terminated keyword that does not lie inside
\* the statement of an earlier keyword
StatementStarts(text) ==
    {p \in 0 .. Len(text) :
        /\ IsKeyword(text, p)
        /\ PeriodsFrom(text, p) # {}
        /\ \A b \in 0 .. (p - 1) :
              IsKeyword(text, b) => \E q \in PeriodsFrom(text, b) : q < p}

\* the span of the statement starting at p: up to and including the first period
Span(text, p) == [start |-> p, end |-> Least(PeriodsFrom(text, p)) + 1]

RECURSIVE Ascending(_)
Ascending(S) == IF S = {} THEN <<>> ELSE <<Least(S)>> \o Ascending(S \ {Least(S)})

\* the statements of text in source order
Statements(text) ==
    LET starts == Ascending(StatementStarts(text))
    IN  [k \in 1 .. Len(starts) |-> Span(text, starts[k])]

\* IN, whitespace, CHARACTER or BYTE, whitespace, MODE occurs in text as whole words
Qualified(text) ==
    \E a \in 0 .. Len(text) :
       /\ Folded(text, a, Min(a + 2, Len(text))) = KwIn
       /\ (a = 0 \/ text[a] \notin WordChars)
       /\ \E b \in (a + 3) .. Len(text) :
             /\ Blank(text, a + 2, b)
             /\ \E alt \in {KwCharacter, KwByte} :
                   /\ b + Len(alt) <= Len(text)
                   /\ Folded(text, b, b + Len(alt)) = alt
                   /\ \E c \in (b + Len(alt) + 1) .. (Len(text) - 4) :
                         /\ Blank(text, b + Len(alt), c)
                         /\ Folded(text, c, c + 4) = KwMode
                         /\ (c + 4 = Len(text) \/ text[c + 5] \notin WordChars)

StatementText(text, s) == SubSeq(text, s.start + 1, s.end)

\* the statements of text that miss the mode qualifier, in source order
Unqualified(text) ==
    SelectSeq(Statements(text), LAMBDA s : ~Qualified(StatementText(text, s)))

\* 1-based line of offset p: the newlines before it, plus one
LineOf(text, p) == Len(SelectSeq(SubSeq(text, 1, p), LAMBDA c : c = NL)) + 1

\* text[s:e] with every newline written as backslash, n
Escaped(text, s, e) ==
    Cat([k \in 1 .. (e - s) |-> IF text[s + k] = NL THEN <<BS, "n">> ELSE <<text[s + k]>>])

\* the excerpt of Context characters around [start, end), clamped to the text
Excerpt(text, start, end) ==
    Escaped(text,
            IF start > Context THEN start - Context ELSE 0,
            IF end + Context < Len(text) THEN end + Context ELSE Len(text))

\* scan_unit has run to its end on units[i]; src, matches and findings are that scan's
Scanned == pc \in {"rule", "done"} /\ i > 0

\* the step is the loop iteration that consumes the statement s of src
Consumes(s) == pc = "unit" /\ pos <= s.start /\ pos' > s.start

-----------------------------------------------------------------------------
(* Claims *)

\* C1: the loop iteration that consumes a statement of src carrying a mode qualifier
\* (IN CHARACTER MODE or IN BYTE MODE) adds no finding.
C1_QualifiedStatementNoFinding ==
    [][\A p \in StatementStarts(src) :
          (Consumes(Span(src, p)) /\ Qualified(StatementText(src, Span(src, p))))
             => findings' = findings]_vars

\* a scan has ended on a text of four statements, the second one with a qualifier:
\* three findings
C1_Witness ==
    /\ Scanned
    /\ Len(Statements(src)) = 4
    /\ Len(findings) = 3
    /\ Qualified(StatementText(src, Statements(src)[2]))

\* C2: the loop iteration that consumes a statement of src without mode qualifier adds
\* exactly one finding, whose line is the number of newlines before the statement's
\* SPLIT keyword plus one, whatever the unit's start_line.
C2_UnqualifiedStatementOneFindingAtLine ==
    [][\A p \in StatementStarts(src) :
          (Consumes(Span(src, p)) /\ ~Qualified(StatementText(src, Span(src, p))))
             => /\ Len(findings') = Len(findings) + 1
                /\ SubSeq(findings', 1, Len(findings)) = findings
                /\ findings'[Len(findings')].line = LineOf(src, p)]_vars

\* a finding on line 3 of a unit whose start_line is 10
C2_Witness ==
    /\ Scanned
    /\ units[i].start_line = 10
    /\ \E k \in 1 .. Len(findings) : findings[k].line = 3

\* C3: when a scan ends, findings has one entry per statement of src that misses the
\* qualifier, and the k-th entry has the line and the snippet of the k-th of them.
C3_FindingsInSourceOrder ==
    Scanned =>
       LET missing == Unqualified(src)
       IN  /\ Len(findings) = Len(missing)
           /\ \A k \in 1 .. Len(findings) :
                 /\ findings[k].line = LineOf(src, missing[k].start)
                 /\ findings[k].snippet = Excerpt(src, missing[k].start, missing[k].end)

\* three findings on three different lines, a compliant statement among the statements
C3_Witness ==
    /\ Scanned
    /\ Len(findings) = 3
    /\ Len(Statements(src)) > 3
    /\ findings[1].line < findings[2].line
    /\ findings[2].line < findings[3].line

\* the unit result scan_rule is to hold for unit u
ExpectedResult(u) ==
    LET missing == Unqualified(u.code)
    IN  [ pgm_name |-> u.pgm_name, inc_name |-> u.inc_name, type |-> u.type, name |-> u.name,
          start_line |-> u.start_line, end_line |-> u.end_line, code |-> u.code,
          rule116_findings |->
             [k \in 1 .. Len(missing) |->
                [ pgm_name |-> u.pgm_name, inc_name |-> u.inc_name, type |-> u.type,
                  name |-> u.name, start_line |-> u.start_line, end_line |-> u.end_line,
                  issue_type |-> "SplitWithoutMode", severity |-> "warning",
                  line |-> LineOf(u.code, missing[k].start),
                  message |-> Message, suggestion |-> Suggestion,
                  snippet |-> Excerpt(u.code, missing[k].start, missing[k].end) ]] ]

\* C4: scan_rule returns, in input order, the results of exactly the units that have
\* findings, each with the unit's fields and the findings of that unit alone.
C4_ResultsAreUnitsWithFindings ==
    pc = "done" =>
       results = SelectSeq([k \in 1 .. Len(units) |-> ExpectedResult(units[k])],
                           LAMBDA r : r.rule116_findings # <<>>)

\* a batch of three units, the middle one without findings, two results returned
C4_Witness ==
    /\ pc = "done"
    /\ Len(units) = 3
    /\ Len(results) = 2
    /\ Unqualified(units[1].code) # <<>>
    /\ Unqualified(units[2].code) = <<>>
    /\ units[1] # units[3]

\* the unterminated keywords of text
Unterminated(text) ==
    {p \in 0 .. Len(text) : IsKeyword(text, p) /\ PeriodsFrom(text, p) = {}}

\* C5: a SPLIT keyword with no period after it is matched by no iteration; the scan
\* ends with the findings of the statements before it only, and empty text gives none.
C5_UnterminatedKeywordNoFinding ==
    Scanned =>
       /\ \A p \in Unterminated(src) :
             /\ \A k \in 1 .. Len(matches) : matches[k].end <= p
             /\ Len(findings) =
                   Len(SelectSeq(Unqualified(src), LAMBDA s : s.end <= p))
       /\ returned[Len(returned)].rule116_findings = findings
       /\ (src = <<>> => findings = <<>>)

\* a scan that ended with three findings on a text whose last keyword has no period
C5_Witness ==
    /\ Scanned
    /\ Unterminated(src) # {}
    /\ Len(findings) = 3

\* the iterations that appended a finding, in order
Flagged == SelectSeq(matches, LAMBDA m : ~m.has_mode)

\* s occurs in t at offset k
OccursAt(s, t, k) == k + Len(s) <= Len(t) /\ SubSeq(t, k + 1, k + Len(s)) = s

\* C6: the snippet of the finding of span [start, end) is src[max(0, start-60) :
\* min(len(src), end+60)] with every newline written backslash, n; it holds no raw
\* newline and holds the whole statement (newlines escaped).
C6_SnippetIsEscapedExcerpt ==
    /\ Len(Flagged) = Len(findings)
    /\ \A k \in 1 .. Len(findings) :
          LET m == Flagged[k]
              lo == IF m.start - Context > 0 THEN m.start - Context ELSE 0
              hi == IF m.end + Context < Len(src) THEN m.end + Context ELSE Len(src)
              snip == findings[k].snippet
          IN  /\ snip = Escaped(src, lo, hi)
              /\ \A j \in 1 .. Len(snip) : snip[j] # NL
              /\ OccursAt(Escaped(src, m.start, m.end), snip, Len(Escaped(src, lo, m.start)))

\* a finding whose statement has more than Context characters on both sides, with
\* newlines inside the statement and inside the context
C6_Witness ==
    /\ Len(findings) > 0
    /\ LET m == Flagged[1]
       IN  /\ m.start > Context
           /\ m.end + Context < Len(src)
           /\ \E k \in (m.start + 1) .. m.end : src[k] = NL
           /\ \E k \in (m.start - Context + 1) .. m.start : src[k] = NL
           /\ Len(findings[1].snippet) > (m.end - m.start) + 2 * Context

\* C7: two scans of the same unit in one request return the same value, whatever was
\* scanned in between.
C7_SameUnitSameResult ==
    \A a, b \in 1 .. Len(returned) : units[a] = units[b] => returned[a] = returned[b]

\* the same unit scanned first and last, a unit with other findings in between
C7_Witness ==
    /\ Len(returned) = 3
    /\ units[1] = units[3]
    /\ returned[1].rule116_findings # <<>>
    /\ returned[2].rule116_findings # <<>>
    /\ returned[2].rule116_findings # returned[1].rule116_findings

\* C8: every extracted statement starts at a whole-word SPLIT (any case), ends with the
\* first period after it and holds no other period; matches are the leftmost ones, in
\* order, and do not overlap; the search resumes at the end of the last match.
C8_StatementExtraction ==
    /\ \A k \in 1 .. Len(matches) :
          LET m == matches[k]
              from == IF k = 1 THEN 0 ELSE matches[k - 1].end
          IN  /\ IsKeyword(src, m.start)
              /\ m.end - 1 = Least(PeriodsFrom(src, m.start))
              /\ m.stmt = SubSeq(src, m.start + 1, m.end)
              /\ \A j \in 1 .. (Len(m.stmt) - 1) : m.stmt[j] # "."
              /\ from <= m.start
              /\ \A p \in from .. (m.start - 1) :
                    ~(IsKeyword(src, p) /\ PeriodsFrom(src, p) # {})
    /\ pc = "unit" => pos = (IF matches = <<>> THEN 0 ELSE matches[Len(matches)].end)

\* a statement that ends at a period inside a literal and holds a second SPLIT keyword
C8_Witness ==
    /\ Scanned
    /\ Len(matches) = 1
    /\ matches[1].end < Len(src)
    /\ src[matches[1].end + 1] = "'"
    /\ \E p \in (matches[1].start + 1) .. (matches[1].end - 1) : IsKeyword(src, p)

\* C9: an extracted statement gets a finding exactly when the qualifier pattern
\* (whole-word IN, whitespace, CHARACTER or BYTE, whitespace, whole-word MODE, any
\* case) occurs nowhere in it.
C9_FindingIffNoQualifier ==
    /\ \A k \in 1 .. Len(matches) : matches[k].has_mode = Qualified(matches[k].stmt)
    /\ Len(findings) = Len(SelectSeq(matches, LAMBDA m : ~Qualified(m.stmt)))

\* IN CHARACTER MODEX is flagged
C9_Witness ==
    /\ Scanned
    /\ Len(findings) = 1
    /\ \E p \in 0 .. Len(src) :
          LitAt(src, p, SP \o KwIn \o SP \o KwCharacter \o SP \o KwMode \o <<"X", ".">>)

\* C10: every finding carries the identifying fields of the unit being scanned, the
\* issue type SplitWithoutMode and the severity warning; the unit is returned as given.
C10_FindingCarriesUnitFields ==
    /\ \A k \in 1 .. Len(findings) :
          LET f == findings[k]
              u == units[i]
          IN  /\ f.pgm_name = u.pgm_name
              /\ f.inc_name = u.inc_name
              /\ f.type = u.type
              /\ f.name = u.name
              /\ f.start_line = u.start_line
              /\ f.end_line = u.end_line
              /\ f.issue_type = "SplitWithoutMode"
              /\ f.severity = "warning"
    /\ \A k \in 1 .. Len(returned) :
          [f \in DOMAIN units[k] |-> returned[k][f]] = units[k]

\* a finding on line 2 of a unit that starts at line 10 and ends at line 20
C10_Witness ==
    /\ Len(findings) > 0
    /\ units[i].start_line = 10
    /\ units[i].end_line = 20
    /\ findings[1].line = 2

=============================================================================
